---------------------------- MODULE Spec2Model ----------------------------
(***************************************************************************)
(* dynr53: the /nic/update endpoint of src/lambda/index.py.                *)
(*                                                                         *)
(* A process (one Lambda execution environment) holds the lru_cache of     *)
(* get_admin_password and handles one request at a time.  A request runs   *)
(* the FastAPI dependency chain (HTTPBasic, validate_credentials), the     *)
(* query-parameter validation and update(); the calls to the DNS provider  *)
(* are the points where its steps are cut.  The DNS provider (Route 53)    *)
(* and the secret store are shared by all processes.                       *)
(*                                                                         *)
(* Conventions.  A DNS name is the sequence of its labels: www.example.com *)
(* is <<"www","example","com">> and a trailing dot is a last empty label.  *)
(* An optional value is a set with at most one element.                    *)
(***************************************************************************)
EXTENDS Naturals, Sequences, FiniteSets

\* ------------------------------------------------------------------ bounds

\* Number of processes (execution environments) of the function.
NumProcs == 2

Procs == 1 .. NumProcs

\* ------------------------------------------------------ program constants

\* update_r53_record: dns_ttl
dns_ttl == 60

HTTP_200_OK == 200
HTTP_400_BAD_REQUEST == 400
HTTP_401_UNAUTHORIZED == 401

\* validate_credentials compares the username with the literal b'admin'.
AdminUser == "admin"

\* The password held in the secret dynr53/users/admin.
SecretPassword == "secret12345"

\* ------------------------------------------------------------ input sets

Usernames == {"admin", "wrong"}
Passwords == {"secret12345", "wrong"}

\* The Authorization header: absent, or a username and a password.
Credentials == {{}} \cup {{[username |-> u, password |-> p]} : u \in Usernames, p \in Passwords}

WwwExampleCom == <<"www", "example", "com">>
ABExampleCom == <<"a", "b", "example", "com">>
ExampleCom == <<"example", "com">>
BExampleCom == <<"b", "example", "com">>
MailExampleCom == <<"mail", "example", "com">>

\* The hostname query parameter: absent, or a name.
Hostnames ==
    { {},
      {WwwExampleCom},                          \* www.example.com
      {ABExampleCom},                           \* a.b.example.com
      {ExampleCom},                             \* example.com (an apex)
      {<<"www", "example", "com", "">>},        \* www.example.com. (trailing dot)
      {<<"localhost">>} }                       \* no dot at all

\* Texts that parse as an IPv4 literal, and one that does not.
ValidIPTexts == {"1.1.1.1", "2.2.2.2"}
IPTexts == ValidIPTexts \cup {"bogus"}

\* The myip query parameter: absent, or a text.
MyIPs == {{}} \cup {{t} : t \in IPTexts}

\* The x-forwarded-for header: absent, or its comma-separated values.
ForwardedFor ==
    { {}, {<<"1.1.1.1">>}, {<<"2.2.2.2", "1.1.1.1">>}, {<<"bogus">>} }

Requests ==
    [auth : Credentials, hostname : Hostnames, myip : MyIPs, xff : ForwardedFor]

\* ------------------------------------------------------------------ state

VARIABLES
    hostedZones,   \* provider: the hosted zones, [Name, Id]
    records,       \* provider: the resource record sets, [Zone, Name, Type, TTL, Values]
    secretUp,      \* secret store: whether get_secret answers
    secretString,  \* secret store: the text stored under dynr53/users/admin
    cache,         \* per process: lru_cache of get_admin_password ({} or {password})
    pc,            \* per process: position of the request being handled
    req,           \* per process: the request being handled ({} when idle)
    myip,          \* per process: update's local myip ({} or {address})
    zone,          \* per process: update's local hosted_zone_id ({} or {id})
    resp,          \* per process: the response ({} until the request is answered)
    calls,         \* per process: the API calls the request issued, in order
    steps,         \* per process: the steps the request ran, in order, with their outcome
    before,        \* per process: the provider's record sets when the request arrived
    prev           \* SpecPairs: the request answered last, if answered 200 ({} or {summary})

vars == <<hostedZones, records, secretUp, secretString, cache, pc, req, myip, zone, resp, calls, steps, before, prev>>

provider == <<hostedZones, records>>
store == <<secretUp, secretString>>
locals == <<myip, zone, before>>

\* --------------------------------------------------------- pure functions

\* The element of a one-element set.
The(S) == CHOOSE x \in S : TRUE

\* pydantic's IPvAnyAddress(text): an address, or no value when the text is
\* not an IP literal (ValueError / PydanticCustomError).
IPvAnyAddress(text) ==
    IF text \in ValidIPTexts THEN {[version |-> 4, text |-> text]} ELSE {}

\* str(ip), also f'{ip}'
str(ip) == ip.text

\* f'{name}.'
WithDot(name) == Append(name, "")

\* Route 53 returns every name fully qualified, with its trailing dot.
ProviderName(name) ==
    IF name # <<>> /\ name[Len(name)] = "" THEN name ELSE WithDot(name)

Response(status, body, headers) ==
    [status |-> status, body |-> body, headers |-> headers]

\* raise HTTPException(status_code, detail, headers)
HTTPException(status, detail, headers) == Response(status, detail, headers)

\* An exception nothing catches: Starlette answers 500.
ServerError == Response(500, <<"Internal Server Error">>, {})

\* FastAPI's RequestValidationError for query parameter `param`.
ValidationError(param) ==
    Response(422, <<"validation error", param>>, {})

BasicChallenge == {<<"WWW-Authenticate", "Basic">>}

\* ------------------------------------------------ credentials (lines 42-67)

\* The text of a secret: whether json.loads accepts it, and the value of the
\* object's 'password' key ({} without the key).
SecretString == [json |-> TRUE, password |-> {SecretPassword}]
NoPasswordKey == [json |-> TRUE, password |-> {}]
NotJson == [json |-> FALSE, password |-> {}]
SecretStrings == {SecretString, NoPasswordKey, NotJson}

\* parameters.get_secret('dynr53/users/admin'): the stored text, or {} when
\* the call raises because the store does not answer.
get_secret(up, text) == IF up THEN {text} ELSE {}

\* json.loads(secret)['password']: the password, or {} when json.loads or the
\* subscript raises.
password_of(secret) ==
    IF secret = {} THEN {}
    ELSE LET text == CHOOSE t \in secret : TRUE
         IN  IF text.json THEN text.password ELSE {}

\* A faulty get_admin_password: no lru_cache, the secret store is called each time.
get_admin_password_uncached(cached, secret) ==
    [value |-> password_of(secret), calls |-> <<"get_secret">>]

\* A faulty get_admin_password: a fetch that fails gives the empty password.
get_admin_password_default_on_failure(cached, secret) ==
    IF cached # {}
    THEN [value |-> cached, calls |-> <<>>]
    ELSE [value |-> IF password_of(secret) = {} THEN {""} ELSE password_of(secret),
          calls |-> <<"get_secret">>]

\* get_admin_password() under functools.lru_cache: a cached value is returned
\* without a call; otherwise the secret store is called, and only a value that
\* was returned is cached (lru_cache caches no exception).  `cached` is the
\* process's cache, `secret` what get_secret gives when called; a value of {}
\* says that the function raised.
get_admin_password(cached, secret) ==
    IF cached # {}
    THEN [value |-> cached, calls |-> <<>>]
    ELSE [value |-> password_of(secret), calls |-> <<"get_secret">>]

\* fastapi.security.HTTPBasic: without an Authorization header the request is
\* answered 401 "Not authenticated" before validate_credentials runs.
security(auth) ==
    IF auth = {}
    THEN {HTTPException(HTTP_401_UNAUTHORIZED, <<"Not authenticated">>, BasicChallenge)}
    ELSE {}

\* A faulty validate_credentials: one matching factor is enough.
validate_credentials_either(credentials, admin_password) ==
    LET username_checks == (AdminUser = credentials.username)
        password_checks == (admin_password = credentials.password)
    IN  IF ~(username_checks \/ password_checks)
        THEN {HTTPException(HTTP_401_UNAUTHORIZED, <<"badauth">>, BasicChallenge)}
        ELSE {}

\* validate_credentials, given the password get_admin_password() returned:
\* the exception raised, if any.
validate_credentials(credentials, admin_password) ==
    LET username_checks == (AdminUser = credentials.username)
        password_checks == (admin_password = credentials.password)
    IN  IF ~(username_checks /\ password_checks)
        THEN {HTTPException(HTTP_401_UNAUTHORIZED, <<"badauth">>, BasicChallenge)}
        ELSE {}

\* ------------------------------------------------- target IP (lines 70-77)

\* IPvAnyAddress(request.headers['x-forwarded-for']): the whole header value
\* is parsed, so a list of several values is not an IP literal.
HeaderAddress(values) ==
    IF Len(values) = 1 THEN IPvAnyAddress(values[1]) ELSE {}

\* A faulty get_ip_from_headers: the KeyError of a missing header is not caught.
get_ip_from_headers_uncaught(request) ==
    LET parsed == IF request.xff = {} THEN {}
                  ELSE IF Len(The(request.xff)) = 1
                       THEN IPvAnyAddress(The(request.xff)[1]) ELSE {}
    IN  IF parsed = {}
        THEN [ip |-> {}, error |-> {ServerError}]
        ELSE [ip |-> parsed, error |-> {}]

\* get_ip_from_headers: the address, or the response that ends the request
\* (KeyError is caught and answered 400; the parse error is not caught).
get_ip_from_headers(request) ==
    IF request.xff = {}
    THEN [ip |-> {},
          error |-> {HTTPException(HTTP_400_BAD_REQUEST,
                        <<"IP can not be determined from x-forward-for header">>, {})}]
    ELSE LET parsed == HeaderAddress(CHOOSE v \in request.xff : TRUE)
         IN  IF parsed = {}
             THEN [ip |-> {}, error |-> {ServerError}]
             ELSE [ip |-> parsed, error |-> {}]

\* A faulty target_ip: the header is consulted first.
target_ip_header_first(request, explicit) ==
    IF request.xff # {}
    THEN get_ip_from_headers(request)
    ELSE IF explicit = {} THEN get_ip_from_headers(request)
         ELSE [ip |-> explicit, error |-> {}]

\* update, lines 182-183: `if not myip: myip = get_ip_from_headers(request)`.
\* `explicit` is the validated myip parameter ({} when absent).
target_ip(request, explicit) ==
    IF explicit = {}
    THEN get_ip_from_headers(request)
    ELSE [ip |-> explicit, error |-> {}]

\* FastAPI's validation of update's query parameters (hostname: str is
\* required, myip: Optional[IPvAnyAddress]): the 422 response, if any.
validate_query(request) ==
    IF request.hostname = {}
    THEN {ValidationError("hostname")}
    ELSE IF request.myip # {} /\ IPvAnyAddress(CHOOSE t \in request.myip : TRUE) = {}
         THEN {ValidationError("myip")}
         ELSE {}

\* The validated myip parameter.
explicit_ip(request) ==
    IF request.myip = {} THEN {} ELSE IPvAnyAddress(CHOOSE t \in request.myip : TRUE)

\* A step of a request that returned, and one that raised an exception of
\* the class given.
Returned(name) == [name |-> name, raised |-> {}]
Raised(name, exception) == [name |-> name, raised |-> {exception}]

\* The class of the exception behind the response that ends the determination
\* of the target IP: the HTTPException of line 75, or pydantic's error.
raised_by(error) ==
    IF (CHOOSE e \in error : TRUE).status = HTTP_400_BAD_REQUEST
    THEN "HTTPException" ELSE "ValidationError"

\* A faulty begin_update: the query parameters are validated before the
\* credentials.
begin_update_query_first(request, cached, secret) ==
    LET sec == security(request.auth)
        pw == get_admin_password(cached, secret)
        vc == "validate_credentials"
        qp == "Query"
        ti == "myip"
        ended(r, c, k, s) == [resp |-> r, ip |-> {}, cache |-> c, calls |-> k, steps |-> s]
    IN  IF sec # {} THEN ended(sec, cached, <<>>, <<Raised(vc, "HTTPException")>>)
        ELSE IF validate_query(request) # {}
             THEN ended(validate_query(request), cached, <<>>,
                        <<Raised(qp, "RequestValidationError")>>)
        ELSE IF pw.value = {}
             THEN ended({ServerError}, cached, pw.calls,
                        <<Returned(qp), Raised(vc, "Exception")>>)
        ELSE LET bad == validate_credentials(CHOOSE c \in request.auth : TRUE,
                                             CHOOSE v \in pw.value : TRUE)
                 target == target_ip(request, explicit_ip(request))
             IN  IF bad # {}
                 THEN ended(bad, pw.value, pw.calls,
                            <<Returned(qp), Raised(vc, "HTTPException")>>)
                 ELSE IF target.error # {}
                      THEN ended(target.error, pw.value, pw.calls,
                                 <<Returned(qp), Returned(vc), Raised(ti, raised_by(target.error))>>)
                 ELSE [resp |-> {}, ip |-> target.ip, cache |-> pw.value, calls |-> pw.calls,
                       steps |-> <<Returned(qp), Returned(vc), Returned(ti)>>]

\* A faulty begin_update: the target IP is determined before the credentials
\* are validated.
begin_update_ip_first(request, cached, secret) ==
    LET sec == security(request.auth)
        pw == get_admin_password(cached, secret)
        vc == "validate_credentials"
        qp == "Query"
        ti == "myip"
        target == target_ip(request, explicit_ip(request))
        ended(r, c, k, s) == [resp |-> r, ip |-> {}, cache |-> c, calls |-> k, steps |-> s]
    IN  IF sec # {} THEN ended(sec, cached, <<>>, <<Raised(vc, "HTTPException")>>)
        ELSE IF target.error # {}
             THEN ended(target.error, cached, <<>>, <<Raised(ti, raised_by(target.error))>>)
        ELSE IF pw.value = {}
             THEN ended({ServerError}, cached, pw.calls,
                        <<Returned(ti), Raised(vc, "Exception")>>)
        ELSE LET bad == validate_credentials(CHOOSE c \in request.auth : TRUE,
                                             CHOOSE v \in pw.value : TRUE)
                 invalid == validate_query(request)
             IN  IF bad # {}
                 THEN ended(bad, pw.value, pw.calls,
                            <<Returned(ti), Raised(vc, "HTTPException")>>)
                 ELSE IF invalid # {}
                      THEN ended(invalid, pw.value, pw.calls,
                                 <<Returned(ti), Returned(vc),
                                   Raised(qp, "RequestValidationError")>>)
                 ELSE [resp |-> {}, ip |-> target.ip, cache |-> pw.value, calls |-> pw.calls,
                       steps |-> <<Returned(ti), Returned(vc), Returned(qp)>>]

\* The part of a request that runs before the first DNS-provider call: the
\* dependency chain (security, validate_credentials with get_admin_password),
\* then the validation of the query parameters, then update's lines 182-183.
\* Dependencies are solved before the parameters are validated (test_bad_user
\* sends no hostname and is answered 401).  The result: the response that ends
\* the request (if any), the target IP, the process's cache afterwards and the
\* calls issued.
begin_update(request, cached, secret) ==
    LET sec == security(request.auth)
        pw == get_admin_password(cached, secret)
        vc == "validate_credentials"
        qp == "Query"
        ti == "myip"
        ended(r, c, k, s) == [resp |-> r, ip |-> {}, cache |-> c, calls |-> k, steps |-> s]
    IN  IF sec # {} THEN ended(sec, cached, <<>>, <<Raised(vc, "HTTPException")>>)
        ELSE IF pw.value = {}
             THEN ended({ServerError}, cached, pw.calls, <<Raised(vc, "Exception")>>)
        ELSE LET bad == validate_credentials(CHOOSE c \in request.auth : TRUE,
                                             CHOOSE v \in pw.value : TRUE)
                 invalid == validate_query(request)
                 target == target_ip(request, explicit_ip(request))
             IN  IF bad # {}
                 THEN ended(bad, pw.value, pw.calls, <<Raised(vc, "HTTPException")>>)
                 ELSE IF invalid # {}
                      THEN ended(invalid, pw.value, pw.calls,
                                 <<Returned(vc), Raised(qp, "RequestValidationError")>>)
                 ELSE IF target.error # {}
                      THEN ended(target.error, pw.value, pw.calls,
                                 <<Returned(vc), Returned(qp), Raised(ti, raised_by(target.error))>>)
                 ELSE [resp |-> {}, ip |-> target.ip, cache |-> pw.value, calls |-> pw.calls,
                       steps |-> <<Returned(vc), Returned(qp), Returned(ti)>>]

\* ------------------------------------------- DNS provider (Route 53 API)

\* list_hosted_zones paginated and searched with
\* "HostedZones[?Name == '<zone_name>.'][Id]": the ids of the matching zones.
list_hosted_zones_filtered(zones, zone_name) ==
    {z.Id : z \in {y \in zones : y.Name = WithDot(zone_name)}}

\* list_resource_record_sets(HostedZoneId, StartRecordName, StartRecordType):
\* the zone's record sets from the start name on.  The sets listed before the
\* start name have another name, and the caller keeps only those named like
\* the start name.
list_resource_record_sets(rrsets, hosted_zone_id, start_name) ==
    {r \in rrsets : r.Zone = hosted_zone_id}

\* change_resource_record_sets with one UPSERT change: the record set of that
\* name and type in the zone is created, or replaced as a whole.
change_resource_record_sets(rrsets, hosted_zone_id, rrset) ==
    LET new == [Zone |-> hosted_zone_id, Name |-> ProviderName(rrset.Name),
                Type |-> rrset.Type, TTL |-> rrset.TTL, Values |-> rrset.Values]
    IN  {r \in rrsets : ~(r.Zone = new.Zone /\ r.Name = new.Name /\ r.Type = new.Type)}
            \cup {new}

\* ----------------------------------------- zone resolution (lines 80-99)

\* A faulty zone_name_of: the last two labels, whatever precedes them.
zone_name_of_last_two(hostname) ==
    IF Len(hostname) > 2 THEN SubSeq(hostname, Len(hostname) - 1, Len(hostname))
    ELSE hostname

\* hostname.split('.', 1)[-1]
zone_name_of(hostname) ==
    IF Len(hostname) > 1 THEN Tail(hostname) ELSE hostname

\* get_hosted_zone_id_from_fqdn: the zone id, or the 400 that ends the request
\* (IndexError on the empty list of matches).
get_hosted_zone_id_from_fqdn(hostname, zones) ==
    LET zone_name == zone_name_of(hostname)
        found == list_hosted_zones_filtered(zones, zone_name)
    IN  IF found = {}
        THEN [id |-> {},
              error |-> {HTTPException(HTTP_400_BAD_REQUEST,
                            <<"Hosted zone">> \o zone_name \o <<"not found">>, {})}]
        ELSE [id |-> {CHOOSE i \in found : TRUE}, error |-> {}]

\* ------------------------------------------ reconciliation (lines 102-146)

\* A faulty is_existing_record_exists: the record set must hold the IP and
\* nothing else.
is_existing_record_exists_only_value(hostname, hosted_zone_id, ip, rrsets) ==
    LET response == list_resource_record_sets(rrsets, hosted_zone_id, hostname)
        existing_match ==
            {r \in response : r.Name = WithDot(hostname) /\ r.Values = {str(ip)}}
    IN  existing_match # {}

\* A faulty is_existing_record_exists: the name is compared without the
\* trailing dot the provider returns.
is_existing_record_exists_no_dot(hostname, hosted_zone_id, ip, rrsets) ==
    LET response == list_resource_record_sets(rrsets, hosted_zone_id, hostname)
        existing_match ==
            {r \in response : r.Name = hostname /\ str(ip) \in r.Values}
    IN  existing_match # {}

\* is_existing_record_exists: the jmespath search
\* "ResourceRecordSets[?Name == '<hostname>.'][ResourceRecords][][?Value == '<ip>'][]"
\* over the listing is not empty.
is_existing_record_exists(hostname, hosted_zone_id, ip, rrsets) ==
    LET response == list_resource_record_sets(rrsets, hosted_zone_id, hostname)
        existing_match ==
            {r \in response : r.Name = WithDot(hostname) /\ str(ip) \in r.Values}
    IN  existing_match # {}

\* A faulty update_r53_record: the TTL of the record it replaces is kept in
\* place of dns_ttl.
update_r53_record_other_ttl(hostname, hosted_zone_id, ip, rrsets) ==
    change_resource_record_sets(rrsets, hosted_zone_id,
        [Name |-> hostname, Type |-> "A", TTL |-> 300, Values |-> {str(ip)}])

\* A faulty update_r53_record: the record is written at the zone's name.
update_r53_record_at_zone_name(hostname, hosted_zone_id, ip, rrsets) ==
    change_resource_record_sets(rrsets, hosted_zone_id,
        [Name |-> Tail(hostname), Type |-> "A", TTL |-> dns_ttl, Values |-> {str(ip)}])

\* A faulty update_r53_record: the record sets of every type under the
\* hostname are replaced by the A record set.
update_r53_record_replaces_name(hostname, hosted_zone_id, ip, rrsets) ==
    change_resource_record_sets(
        {r \in rrsets : ~(r.Zone = hosted_zone_id /\ r.Name = ProviderName(hostname))},
        hosted_zone_id,
        [Name |-> hostname, Type |-> "A", TTL |-> dns_ttl, Values |-> {str(ip)}])

\* update_r53_record: the provider's record sets after the UPSERT.
update_r53_record(hostname, hosted_zone_id, ip, rrsets) ==
    change_resource_record_sets(rrsets, hosted_zone_id,
        [Name |-> hostname, Type |-> "A", TTL |-> dns_ttl, Values |-> {str(ip)}])

\* ---------------------------------------------------------- initial state

ZoneIdExampleCom == "Z1"
ZoneIdBExampleCom == "Z2"

\* The zones the provider may hold: example.com alone, or example.com and its
\* delegated subdomain b.example.com (create_hosted_zone stores the name with
\* its trailing dot).
InitialZones ==
    { {[Name |-> ProviderName(ExampleCom), Id |-> ZoneIdExampleCom]},
      {[Name |-> ProviderName(ExampleCom), Id |-> ZoneIdExampleCom],
       [Name |-> ProviderName(BExampleCom), Id |-> ZoneIdBExampleCom]} }

RRSet(z, name, type, ttl, values) ==
    [Zone |-> z, Name |-> ProviderName(name), Type |-> type, TTL |-> ttl, Values |-> values]

\* Record sets the service never names in an upsert: another type at the
\* requested name, another name, a record in the other zone.
OtherRecords ==
    { RRSet(ZoneIdExampleCom, WwwExampleCom, "TXT", 300, {"\"hello\""}),
      RRSet(ZoneIdExampleCom, MailExampleCom, "A", 300, {"9.9.9.9"}),
      RRSet(ZoneIdBExampleCom, ABExampleCom, "TXT", 300, {"\"hello\""}) }

\* What www.example.com's A record set may hold before the first request.
InitialWwwA ==
    { {},
      {RRSet(ZoneIdExampleCom, WwwExampleCom, "A", dns_ttl, {"1.1.1.1"})},
      {RRSet(ZoneIdExampleCom, WwwExampleCom, "A", 300, {"2.2.2.2"})},
      {RRSet(ZoneIdExampleCom, WwwExampleCom, "A", 300, {"1.1.1.1", "2.2.2.2"})} }

Init ==
    /\ hostedZones \in InitialZones
    /\ \E a \in InitialWwwA :
          records = {r \in OtherRecords \cup a : \E z \in hostedZones : z.Id = r.Zone}
    /\ secretUp = TRUE
    /\ secretString = SecretString
    /\ cache = [p \in Procs |-> {}]
    /\ pc = [p \in Procs |-> "idle"]
    /\ req = [p \in Procs |-> {}]
    /\ myip = [p \in Procs |-> {}]
    /\ zone = [p \in Procs |-> {}]
    /\ resp = [p \in Procs |-> {}]
    /\ calls = [p \in Procs |-> <<>>]
    /\ steps = [p \in Procs |-> <<>>]
    /\ before = [p \in Procs |-> {}]
    /\ prev = {}

\* ------------------------------------------------------------------ steps

\* PlainTextResponse(message)
PlainTextResponse(message) == Response(HTTP_200_OK, message, {})

\* Process p receives request r and runs it up to its first DNS-provider call
\* (begin_update), or to the response that ends it.
Begin(p, r) ==
    /\ pc[p] = "idle"
    /\ LET b == begin_update(r, cache[p], get_secret(secretUp, secretString))
       IN  /\ req' = [req EXCEPT ![p] = {r}]
           /\ cache' = [cache EXCEPT ![p] = b.cache]
           /\ calls' = [calls EXCEPT ![p] = b.calls]
           /\ steps' = [steps EXCEPT ![p] = b.steps]
           /\ resp' = [resp EXCEPT ![p] = b.resp]
           /\ myip' = [myip EXCEPT ![p] = b.ip]
           /\ pc' = [pc EXCEPT ![p] = IF b.resp # {} THEN "done" ELSE "zone"]
    /\ before' = [before EXCEPT ![p] = records]
    /\ UNCHANGED <<provider, store, zone, prev>>

\* update, line 185: hosted_zone_id = get_hosted_zone_id_from_fqdn(hostname).
ResolveZone(p) ==
    /\ pc[p] = "zone"
    /\ LET z == get_hosted_zone_id_from_fqdn(The(The(req[p]).hostname), hostedZones)
       IN  /\ calls' = [calls EXCEPT ![p] =
                            @ \o <<"list_hosted_zones_by_name", "list_hosted_zones">>]
           /\ steps' = [steps EXCEPT ![p] =
                            Append(@, IF z.error # {}
                                      THEN Raised("get_hosted_zone_id_from_fqdn", "HTTPException")
                                      ELSE Returned("get_hosted_zone_id_from_fqdn"))]
           /\ zone' = [zone EXCEPT ![p] = z.id]
           /\ resp' = [resp EXCEPT ![p] = z.error]
           /\ pc' = [pc EXCEPT ![p] = IF z.error # {} THEN "done" ELSE "list"]
    /\ UNCHANGED <<provider, store, cache, req, myip, before, prev>>

\* update, lines 187-190: the record listing, and the nochg answer on a match.
CheckExisting(p) ==
    /\ pc[p] = "list"
    /\ LET ere == is_existing_record_exists(The(The(req[p]).hostname), The(zone[p]),
                                            The(myip[p]), records)
       IN  /\ calls' = [calls EXCEPT ![p] = Append(@, "list_resource_record_sets")]
           /\ steps' = [steps EXCEPT ![p] = Append(@, Returned("is_existing_record_exists"))]
           /\ resp' = [resp EXCEPT ![p] =
                           IF ere THEN {PlainTextResponse(<<"nochg", str(The(myip[p]))>>)}
                                  ELSE {}]
           /\ pc' = [pc EXCEPT ![p] = IF ere THEN "done" ELSE "upsert"]
    /\ UNCHANGED <<provider, store, cache, req, locals, prev>>

\* update, lines 192-195: the upsert and the good answer.
Upsert(p) ==
    /\ pc[p] = "upsert"
    /\ records' = update_r53_record(The(The(req[p]).hostname), The(zone[p]),
                                    The(myip[p]), records)
    /\ calls' = [calls EXCEPT ![p] = Append(@, "change_resource_record_sets")]
    /\ steps' = [steps EXCEPT ![p] = Append(@, Returned("update_r53_record"))]
    /\ resp' = [resp EXCEPT ![p] = {PlainTextResponse(<<"good", str(The(myip[p]))>>)}]
    /\ pc' = [pc EXCEPT ![p] = "done"]
    /\ UNCHANGED <<hostedZones, store, cache, req, locals, prev>>

\* What is remembered of an answered request, when it was answered 200: its
\* hostname, the IP it reported, whether the hostname's A record set held that
\* IP when it arrived, and its answer.
Summary(p) ==
    IF The(resp[p]).status = HTTP_200_OK
    THEN LET h == The(The(req[p]).hostname)
             ip == str(The(myip[p]))
         IN  {[hostname |-> h, ip |-> ip,
               published |-> \E r \in before[p] :
                                /\ r.Zone = The(zone[p])
                                /\ r.Name = ProviderName(h)
                                /\ r.Type = "A"
                                /\ ip \in r.Values,
               answer |-> The(resp[p]).body[1]]}
    ELSE {}

\* The response is sent; the process is free for its next request.
Send(p) ==
    /\ pc[p] = "done"
    /\ pc' = [pc EXCEPT ![p] = "idle"]
    /\ req' = [req EXCEPT ![p] = {}]
    /\ resp' = [resp EXCEPT ![p] = {}]
    /\ calls' = [calls EXCEPT ![p] = <<>>]
    /\ steps' = [steps EXCEPT ![p] = <<>>]
    /\ myip' = [myip EXCEPT ![p] = {}]
    /\ zone' = [zone EXCEPT ![p] = {}]
    /\ before' = [before EXCEPT ![p] = {}]
    /\ UNCHANGED <<provider, store, cache>>

Respond(p) == Send(p) /\ UNCHANGED prev

\* The same, and the answered request is remembered.
RespondRemembered(p) == Send(p) /\ prev' = Summary(p)

\* The process is replaced by a fresh one (a cold start): its lru_cache is empty.
Restart(p) ==
    /\ pc[p] = "idle"
    /\ cache[p] # {}
    /\ cache' = [cache EXCEPT ![p] = {}]
    /\ UNCHANGED <<provider, store, pc, req, locals, resp, calls, steps, prev>>

\* No request is being handled by any process.
AllIdle == \A q \in Procs : pc[q] = "idle"

\* A request arrives while no other is being handled.
Receive(p) == \E r \in Requests : AllIdle /\ Begin(p, r)

\* Requests handled one after the other, by any of the processes, with a
\* reachable secret store.
Next ==
    \E p \in Procs :
        \/ Receive(p)
        \/ ResolveZone(p)
        \/ CheckExisting(p)
        \/ Upsert(p)
        \/ Respond(p)
        \/ Restart(p)

Spec == Init /\ [][Next]_vars

\* The requests of the runs in which the answered request is remembered:
\* with or without the right password, every hostname and every myip.
PairRequests ==
    [auth : {{[username |-> AdminUser, password |-> w]} : w \in Passwords},
     hostname : Hostnames, myip : MyIPs, xff : {{}, {<<"1.1.1.1">>}}]

ReceivePair(p) == \E r \in PairRequests : AllIdle /\ Begin(p, r)

NextPairs ==
    \E p \in Procs :
        \/ ReceivePair(p)
        \/ ResolveZone(p)
        \/ CheckExisting(p)
        \/ Upsert(p)
        \/ RespondRemembered(p)
        \/ Restart(p)

\* Requests handled one after the other, each knowing the one answered
\* before it.
SpecPairs == Init /\ [][NextPairs]_vars

\* The secret store becomes unreachable, and reachable again.
SecretDown ==
    /\ secretUp
    /\ secretUp' = FALSE
    /\ UNCHANGED <<provider, secretString, cache, pc, req, locals, resp, calls, steps, prev>>

SecretRestored ==
    /\ ~secretUp
    /\ secretUp' = TRUE
    /\ UNCHANGED <<provider, secretString, cache, pc, req, locals, resp, calls, steps, prev>>

\* The stored secret is overwritten with another text.
SecretPut ==
    /\ \E text \in SecretStrings \ {secretString} : secretString' = text
    /\ UNCHANGED <<provider, secretUp, cache, pc, req, locals, resp, calls, steps, prev>>

\* The requests of the runs with a failing secret store: every kind of
\* credentials, with and without hostname, myip and forwarding header.
OutageRequests ==
    [auth : Credentials, hostname : {{}, {WwwExampleCom}}, myip : {{}, {"1.1.1.1"}},
     xff : {{}, {<<"1.1.1.1">>}}]

ReceiveOutage(p) == \E r \in OutageRequests : AllIdle /\ Begin(p, r)

NextOutage ==
    \/ \E p \in Procs :
          \/ ReceiveOutage(p)
          \/ ResolveZone(p)
          \/ CheckExisting(p)
          \/ Upsert(p)
          \/ Respond(p)
          \/ Restart(p)
    \/ SecretDown
    \/ SecretRestored
    \/ SecretPut

\* Requests handled one after the other, with a secret store that may be
\* unreachable, and a secret that may be malformed, at any time.
SpecOutage == Init /\ [][NextOutage]_vars

\* A faulty zone_listing_denied: the error is taken for an empty listing.
zone_listing_denied_as_not_found(hostname) ==
    get_hosted_zone_id_from_fqdn(hostname, {}).error

\* get_hosted_zone_id_from_fqdn when a listing call raises ClientError: only
\* IndexError is caught, the exception leaves update and the request ends in
\* the server's 500 response.
zone_listing_denied(hostname) == {ServerError}

\* update, line 185, with the provider refusing list_hosted_zones_by_name or
\* the list_hosted_zones that follows it.
ZoneListingDenied(p) ==
    /\ pc[p] = "zone"
    /\ \E k \in 1..2 :
          calls' = [calls EXCEPT ![p] =
                       @ \o SubSeq(<<"list_hosted_zones_by_name", "list_hosted_zones">>, 1, k)]
    /\ steps' = [steps EXCEPT ![p] =
                     Append(@, Raised("get_hosted_zone_id_from_fqdn", "ClientError"))]
    /\ resp' = [resp EXCEPT ![p] = zone_listing_denied(The(The(req[p]).hostname))]
    /\ pc' = [pc EXCEPT ![p] = "done"]
    /\ UNCHANGED <<provider, store, cache, req, locals, prev>>

\* update, line 187, with the provider refusing list_resource_record_sets.
RecordListingDenied(p) ==
    /\ pc[p] = "list"
    /\ calls' = [calls EXCEPT ![p] = Append(@, "list_resource_record_sets")]
    /\ steps' = [steps EXCEPT ![p] =
                     Append(@, Raised("is_existing_record_exists", "ClientError"))]
    /\ resp' = [resp EXCEPT ![p] = {ServerError}]
    /\ pc' = [pc EXCEPT ![p] = "done"]
    /\ UNCHANGED <<provider, store, cache, req, locals, prev>>

\* update, line 193, with the provider refusing change_resource_record_sets:
\* line 195 is not reached.
UpsertDenied(p) ==
    /\ pc[p] = "upsert"
    /\ calls' = [calls EXCEPT ![p] = Append(@, "change_resource_record_sets")]
    /\ steps' = [steps EXCEPT ![p] = Append(@, Raised("update_r53_record", "ClientError"))]
    /\ resp' = [resp EXCEPT ![p] = {ServerError}]
    /\ pc' = [pc EXCEPT ![p] = "done"]
    /\ UNCHANGED <<provider, store, cache, req, locals, prev>>

NextDenied ==
    \E p \in Procs :
        \/ Receive(p)
        \/ ResolveZone(p)
        \/ ZoneListingDenied(p)
        \/ CheckExisting(p)
        \/ RecordListingDenied(p)
        \/ Upsert(p)
        \/ UpsertDenied(p)
        \/ Respond(p)

\* Requests handled one after the other, with a DNS provider that may refuse
\* any call.
SpecDenied == Init /\ [][NextDenied]_vars

\* The requests of the runs with overlapping requests: the right credentials,
\* a hostname, a valid myip, with or without forwarding header.
OverlapRequests ==
    [auth : {{[username |-> AdminUser, password |-> SecretPassword]}},
     hostname : {{WwwExampleCom}, {ABExampleCom}}, myip : {{"1.1.1.1"}, {"2.2.2.2"}},
     xff : {{}, {<<"1.1.1.1">>}}]

\* A request arrives while the other processes are idle or handle requests
\* for the same hostname and the same IP: each request runs in a process of
\* its own (handler, lines 215-216), its provider calls interleaved with
\* those of the others.
ReceiveOverlap(p) ==
    \E r \in OverlapRequests :
        /\ \A q \in Procs :
               req[q] # {} =>
                   /\ The(req[q]).hostname = r.hostname
                   /\ The(req[q]).myip = r.myip
        /\ Begin(p, r)

NextOverlap ==
    \E p \in Procs :
        \/ ReceiveOverlap(p)
        \/ ResolveZone(p)
        \/ CheckExisting(p)
        \/ Upsert(p)
        \/ Respond(p)

\* Requests for one hostname and one IP handled at the same time by several
\* processes, the service being the provider's only writer.
SpecOverlap == Init /\ [][NextOverlap]_vars

\* ------------------------------------------------- vocabulary of the claims

\* The calls that go to the DNS provider.
ProviderCalls ==
    {"list_hosted_zones_by_name", "list_hosted_zones", "list_resource_record_sets",
     "change_resource_record_sets"}

Issued(p) == {calls[p][i] : i \in DOMAIN calls[p]}

\* The request process p is handling (pc[p] # "idle").
Request(p) == The(req[p])

\* The request carries the administrative credential.
Authenticated(r) == r.auth = {[username |-> AdminUser, password |-> SecretPassword]}

\* The request supplies credentials and one factor at least is wrong.
WrongCredentials(r) ==
    /\ r.auth # {}
    /\ \/ The(r.auth).username # AdminUser
       \/ The(r.auth).password # SecretPassword

\* The names under which zones are registered (without the trailing dot).
RegisteredNames == {SubSeq(z.Name, 1, Len(z.Name) - 1) : z \in hostedZones}

\* The hostname with exactly its leftmost label stripped.
Candidate(h) == Tail(h)

\* The hostname's zone exists: its candidate is the name of a registered zone.
ZoneExists(h) == Candidate(h) \in RegisteredNames

ZoneIdOf(h) == (CHOOSE z \in hostedZones : z.Name = ProviderName(Candidate(h))).Id

\* The A record sets of hostname h in its zone, among rrsets.
ARecordSets(rrsets, h) ==
    {r \in rrsets : r.Zone = ZoneIdOf(h) /\ r.Name = ProviderName(h) /\ r.Type = "A"}

\* h's A record set holds the value ip.
Published(rrsets, h, ip) == \E r \in ARecordSets(rrsets, h) : ip \in r.Values

\* Process p has answered an authenticated request for hostname h with the
\* target IP (as text) ip, and h's zone exists.
Reconciled(p, h, ip) ==
    /\ pc[p] = "done"
    /\ Authenticated(Request(p))
    /\ Request(p).hostname = {h}
    /\ myip[p] # {}
    /\ str(The(myip[p])) = ip
    /\ ZoneExists(h)

ResolvableHostnames == {WwwExampleCom, ABExampleCom}

\* ------------------------------------------------------------------ claims

C2_UnchangedWhenPublished ==
    \A p \in Procs : \A h \in ResolvableHostnames : \A ip \in ValidIPTexts :
        (Reconciled(p, h, ip) /\ Published(before[p], h, ip)) =>
            /\ resp[p] = {Response(200, <<"nochg", ip>>, {})}
            /\ "change_resource_record_sets" \notin Issued(p)
            /\ records = before[p]

\* C2 witness: a request for an IP that is one of two values of the record set
\* has been answered.
C2_Witness ==
    \E p \in Procs :
        /\ Reconciled(p, WwwExampleCom, "1.1.1.1")
        /\ \E r \in ARecordSets(before[p], WwwExampleCom) : r.Values = {"1.1.1.1", "2.2.2.2"}

\* C3: when the zone exists and the record set holds no value equal to the
\* target IP, the answer is good <ip> and the hostname then has exactly one A
\* record set, whose only value is <ip> and whose TTL is 60.
C3_UpsertWhenNotPublished ==
    \A p \in Procs : \A h \in ResolvableHostnames : \A ip \in ValidIPTexts :
        (Reconciled(p, h, ip) /\ ~Published(before[p], h, ip)) =>
            /\ resp[p] = {Response(200, <<"good", ip>>, {})}
            /\ ARecordSets(records, h) =
                   {[Zone |-> ZoneIdOf(h), Name |-> ProviderName(h), Type |-> "A",
                     TTL |-> 60, Values |-> {ip}]}

\* C3 witness: a request has replaced an A record set that held another value
\* with another TTL.
C3_Witness ==
    \E p \in Procs :
        /\ Reconciled(p, WwwExampleCom, "1.1.1.1")
        /\ \E r \in ARecordSets(before[p], WwwExampleCom) :
              r.Values = {"2.2.2.2"} /\ r.TTL = 300
        /\ The(resp[p]).body = <<"good", "1.1.1.1">>

\* C4: idempotence.  An authenticated request for a hostname whose zone exists
\* and an IP not yet published is answered good <ip>; the same request handled
\* right after it is answered nochg <ip> and issues no provider write.
C4_Idempotence ==
    \A p \in Procs : \A h \in ResolvableHostnames : \A ip \in ValidIPTexts :
        Reconciled(p, h, ip) =>
            /\ ~Published(before[p], h, ip) => resp[p] = {Response(200, <<"good", ip>>, {})}
            /\ (/\ prev # {}
                /\ The(prev).hostname = h
                /\ The(prev).ip = ip
                /\ ~The(prev).published) =>
                    /\ The(prev).answer = "good"
                    /\ resp[p] = {Response(200, <<"nochg", ip>>, {})}
                    /\ "change_resource_record_sets" \notin Issued(p)
                    /\ records = before[p]

\* C4 witness: the second of two successive requests for the same hostname
\* and IP has been answered, the first having found another value published.
C4_Witness ==
    \E p \in Procs :
        /\ Reconciled(p, WwwExampleCom, "2.2.2.2")
        /\ prev = {[hostname |-> WwwExampleCom, ip |-> "2.2.2.2", published |-> FALSE,
                    answer |-> "good"]}
        /\ The(resp[p]).body = <<"nochg", "2.2.2.2">>

\* C5 as stated: every record set the provider held when a request arrived is
\* still held, with every one of its values, at any later point of the request.
C5_NothingRemoved ==
    \A p \in Procs :
        pc[p] # "idle" =>
            \A b \in before[p] :
                \E r \in records :
                    /\ r.Zone = b.Zone /\ r.Name = b.Name /\ r.Type = b.Type
                    /\ b.Values \subseteq r.Values

\* The record set a request for hostname h in zone z writes.
IsTarget(r, z, h) == r.Zone = z /\ r.Name = ProviderName(h) /\ r.Type = "A"

\* C5 amended: a request never removes or changes a record set of another
\* type, another name or another zone; the A record set of its hostname is
\* either left as it was or replaced as a whole by the single value <ip> with
\* TTL 60, which drops the values it held.
C5_OnlyTargetReplaced ==
    \A p \in Procs :
        pc[p] # "idle" =>
            \/ records = before[p]
            \/ /\ Request(p).hostname # {} /\ zone[p] # {} /\ myip[p] # {}
               /\ LET h == The(Request(p).hostname)
                      z == The(zone[p])
                  IN  /\ {r \in records : ~IsTarget(r, z, h)}
                            = {r \in before[p] : ~IsTarget(r, z, h)}
                      /\ {r \in records : IsTarget(r, z, h)}
                            = {[Zone |-> z, Name |-> ProviderName(h), Type |-> "A",
                                TTL |-> 60, Values |-> {str(The(myip[p]))}]}

\* C5 witness: a request has replaced a two-valued A record set, and a TXT
\* record set of the same name is still there.
C5_Witness ==
    \E p \in Procs :
        /\ pc[p] = "done"
        /\ records # before[p]
        /\ \E b \in before[p] :
              b.Name = ProviderName(WwwExampleCom) /\ b.Type = "A" /\ b.TTL = 300
        /\ \E r \in records : r.Name = ProviderName(WwwExampleCom) /\ r.Type = "TXT"

\* C6 as stated: an authenticated request that carries neither myip nor the
\* forwarding header is answered 400 and issues no DNS-provider call.
C6_NoIPIs400 ==
    \A p \in Procs :
        (/\ pc[p] # "idle"
         /\ Authenticated(Request(p))
         /\ Request(p).myip = {}
         /\ Request(p).xff = {}) =>
            /\ pc[p] = "done"
            /\ The(resp[p]).status = 400
            /\ Issued(p) \cap ProviderCalls = {}

\* C6 amended: an authenticated request that names a hostname and carries
\* neither myip nor the forwarding header is answered 400 and issues no
\* DNS-provider call; without a hostname it is answered 422, also without any
\* DNS-provider call.
C6_NoIPIs400WithHostname ==
    \A p \in Procs :
        (/\ pc[p] # "idle"
         /\ Authenticated(Request(p))
         /\ Request(p).myip = {}
         /\ Request(p).xff = {}) =>
            /\ pc[p] = "done"
            /\ The(resp[p]).status = IF Request(p).hostname # {} THEN 400 ELSE 422
            /\ Issued(p) \cap ProviderCalls = {}
            /\ records = before[p]

\* C6 witness: such a request, for a hostname whose zone exists, has been
\* answered.
C6_Witness ==
    \E p \in Procs :
        /\ pc[p] = "done"
        /\ Authenticated(Request(p))
        /\ Request(p).hostname = {WwwExampleCom}
        /\ Request(p).myip = {}
        /\ Request(p).xff = {}
        /\ The(resp[p]).status = 400

\* Process p is past the zone resolution of an authenticated request.
Resolved(p) ==
    /\ pc[p] \in {"list", "upsert", "done"}
    /\ Authenticated(Request(p))
    /\ Request(p).hostname # {}
    /\ myip[p] # {}

\* C7: zone resolution strips exactly the leftmost label and succeeds only
\* when a registered zone has exactly that name: www.example.com resolves to
\* the zone example.com; a.b.example.com with only example.com registered, and
\* any hostname whose candidate is not registered, is answered 400 zone not
\* found with no record listing and no upsert.
C7_SingleLabelStrip ==
    \A p \in Procs :
        Resolved(p) =>
            LET h == The(Request(p).hostname)
            IN  /\ ZoneExists(h) =>
                       /\ zone[p] = {ZoneIdOf(h)}
                       /\ resp[p] # {} => The(resp[p]).status = 200
                /\ ~ZoneExists(h) =>
                       /\ pc[p] = "done"
                       /\ zone[p] = {}
                       /\ The(resp[p]).status = 400
                       /\ The(resp[p]).body[1] = "Hosted zone"
                       /\ "list_resource_record_sets" \notin Issued(p)
                       /\ "change_resource_record_sets" \notin Issued(p)
                       /\ records = before[p]
                /\ h = WwwExampleCom => zone[p] = {ZoneIdExampleCom}
                /\ (h = ABExampleCom /\ RegisteredNames = {ExampleCom}) =>
                       The(resp[p]).status = 400

\* C7 witness: a request for a.b.example.com has been answered while
\* example.com is the only registered zone.
C7_Witness ==
    \E p \in Procs :
        /\ Resolved(p)
        /\ Request(p).hostname = {ABExampleCom}
        /\ RegisteredNames = {ExampleCom}
        /\ pc[p] = "done"

\* C8 as stated: without myip and with a forwarding header whose first value
\* is an IP literal, that first value is published and echoed, for a header of
\* one value and for a header of several values alike.
C8_FirstForwardedValue ==
    \A p \in Procs :
        (/\ pc[p] = "done"
         /\ Authenticated(Request(p))
         /\ Request(p).hostname = {WwwExampleCom}
         /\ Request(p).myip = {}
         /\ Request(p).xff # {}
         /\ The(Request(p).xff)[1] \in ValidIPTexts) =>
            LET first == The(Request(p).xff)[1]
            IN  /\ The(resp[p]).status = 200
                /\ The(resp[p]).body[2] = first
                /\ Published(records, WwwExampleCom, first)

\* C9: a present and valid myip is the IP that is published and echoed, and
\* the request runs the same whatever the forwarding header holds.
C9_ExplicitIPWins ==
    \A p \in Procs :
        (/\ pc[p] # "idle"
         /\ Request(p).myip # {}
         /\ The(Request(p).myip) \in ValidIPTexts) =>
            LET r == Request(p)
                ip == The(r.myip)
            IN  /\ \A x \in ForwardedFor : \A c \in {{}, {SecretPassword}} :
                       begin_update([r EXCEPT !.xff = x], c, {SecretString})
                           = begin_update(r, c, {SecretString})
                /\ (Authenticated(r) /\ r.hostname # {}) =>
                       /\ myip[p] # {}
                       /\ str(The(myip[p])) = ip
                /\ (resp[p] # {} /\ The(resp[p]).status = 200) =>
                       /\ The(resp[p]).body \in {<<"good", ip>>, <<"nochg", ip>>}
                       /\ Published(records, The(r.hostname), ip)

\* C9 witness: a request whose myip differs from the forwarding header's
\* value has been answered good.
C9_Witness ==
    \E p \in Procs :
        /\ pc[p] = "done"
        /\ Request(p).myip = {"2.2.2.2"}
        /\ Request(p).xff = {<<"1.1.1.1">>}
        /\ The(resp[p]).body = <<"good", "2.2.2.2">>

\* C10: once a process holds the credential it keeps it until it restarts; a
\* request it then receives issues no call to the secret store and is
\* answered as it would be with the store reachable, also while the store is
\* unreachable; a call to the secret store is only issued by a process that
\* holds no credential (a fresh one, or one whose fetches all failed).
C10_Memoised ==
    [][\A p \in Procs :
          /\ cache[p] # {} =>
                /\ cache'[p] # cache[p] =>
                       (cache'[p] = {} /\ pc[p] = "idle" /\ pc'[p] = "idle")
                /\ (pc[p] = "idle" /\ pc'[p] # "idle") =>
                       /\ "get_secret" \notin Issued(p)'
                       /\ cache'[p] = cache[p]
                       /\ resp'[p] = begin_update(Request(p)', cache[p], {SecretString}).resp
                       /\ WrongCredentials(Request(p)') =>
                              resp'[p] = {Response(401, <<"badauth">>, BasicChallenge)}
                       /\ Authenticated(Request(p)') =>
                              (resp'[p] # {} => The(resp'[p]).status \in {400, 422, 500})
          /\ (pc[p] = "idle" /\ pc'[p] # "idle" /\ "get_secret" \in Issued(p)') =>
                cache[p] = {}
      ]_vars

\* C10 witness: while the secret store is unreachable, a process that holds
\* the credential has answered an authenticated request 200 without a call to
\* the secret store.
C10_Witness ==
    \E p \in Procs :
        /\ pc[p] = "done"
        /\ ~secretUp
        /\ cache[p] # {}
        /\ Authenticated(Request(p))
        /\ "get_secret" \notin Issued(p)
        /\ The(resp[p]).status = 200

\* C11: a request with credentials received by a process that holds no
\* credential calls the secret store; when the fetch fails (the store does not
\* answer, or the secret is not JSON or has no password) the request is
\* answered 5xx and the process still holds nothing, so that its next request
\* calls the store again; when the fetch succeeds the request is answered as
\* by a process that holds the credential, never 401 with the right
\* credentials.
C11_FailedFetchNotCached ==
    [][\A p \in Procs :
          (/\ pc[p] = "idle" /\ pc'[p] # "idle"
           /\ cache[p] = {}
           /\ Request(p)'.auth # {}) =>
              /\ "get_secret" \in Issued(p)'
              /\ password_of(get_secret(secretUp, secretString)) = {} =>
                     /\ pc'[p] = "done"
                     /\ The(resp'[p]).status \in 500..599
                     /\ cache'[p] = {}
              /\ password_of(get_secret(secretUp, secretString)) # {} =>
                     /\ cache'[p] = {SecretPassword}
                     /\ resp'[p] = begin_update(Request(p)', {SecretPassword}, {}).resp
                     /\ Authenticated(Request(p)') =>
                            resp'[p] # {Response(401, <<"badauth">>, BasicChallenge)}
      ]_vars

\* C11 witness: the store answers with a secret without password, and a
\* request with the right credentials has been answered 500 after a call to
\* the store, the process holding nothing.
C11_Witness ==
    \E p \in Procs :
        /\ pc[p] = "done"
        /\ secretUp
        /\ secretString = NoPasswordKey
        /\ Authenticated(Request(p))
        /\ "get_secret" \in Issued(p)
        /\ The(resp[p]).status = 500
        /\ cache[p] = {}

\* The responses to the requests with wrong credentials, over every request
\* and both states of the process's cache.
RejectionResponses ==
    {begin_update(r, c, {SecretString}).resp :
        r \in {q \in Requests : WrongCredentials(q)}, c \in {{}, {SecretPassword}}}

StepRaised(p, name, exception) ==
    \E i \in DOMAIN steps[p] : steps[p][i] = Raised(name, exception)

\* A call of the request of process p was refused by the provider.
Denied(p) == \E i \in DOMAIN steps[p] : steps[p][i].raised = {"ClientError"}

\* The answer is 400 "Hosted zone ... not found".
ZoneNotFound(answer) ==
    /\ answer.status = 400
    /\ answer.body[1] = "Hosted zone"
    /\ answer.body[Len(answer.body)] = "not found"

\* C13: a request of which the provider refused a call is answered 500, not
\* the 400 of a zone that is not found, and leaves the record sets as they
\* were; a request is answered 400 "Hosted zone ... not found" only when both
\* zone listings were issued, none was refused and no zone is registered under
\* the candidate name; a request is answered good only when its upsert was
\* issued and not refused, and the record set then holds the IP.
C13_DenialIsServerError ==
    \A p \in Procs :
        pc[p] = "done" =>
            LET r == Request(p)
                answer == The(resp[p])
            IN  /\ Denied(p) =>
                       /\ answer.status \in {403} \cup 500..599
                       /\ ~ZoneNotFound(answer)
                       /\ answer.body[1] \notin {"good", "nochg"}
                       /\ records = before[p]
                /\ ZoneNotFound(answer) =>
                       /\ ~Denied(p)
                       /\ {"list_hosted_zones_by_name", "list_hosted_zones"} \subseteq Issued(p)
                       /\ Candidate(The(r.hostname)) \notin RegisteredNames
                /\ (answer.status = 200 /\ answer.body[1] = "good") =>
                       /\ ~Denied(p)
                       /\ "change_resource_record_sets" \in Issued(p)
                       /\ Published(records, The(r.hostname), answer.body[2])

\* C13 witness: the provider refused the zone listing of a request for a
\* hostname whose zone is registered, and the request has been answered.
C13_Witness ==
    \E p \in Procs :
        /\ pc[p] = "done"
        /\ StepRaised(p, "get_hosted_zone_id_from_fqdn", "ClientError")
        /\ Authenticated(Request(p))
        /\ ZoneExists(The(Request(p).hostname))
        /\ The(resp[p]).status = 500

\* The steps of update in the order of the code: the credentials (the route's
\* dependency), the query parameters, the target IP, the zone, the record
\* listing, the upsert.
StepOrder ==
    <<"validate_credentials", "Query", "myip", "get_hosted_zone_id_from_fqdn",
      "is_existing_record_exists", "update_r53_record">>

\* The provider calls of a request that ran all its steps, in order.
CallOrder ==
    <<"list_hosted_zones_by_name", "list_hosted_zones", "list_resource_record_sets",
      "change_resource_record_sets">>

\* The provider calls process p issued, in order.
RECURSIVE ProviderCallsOf(_)
ProviderCallsOf(seq) ==
    IF seq = <<>> THEN <<>>
    ELSE IF Head(seq) \in ProviderCalls
         THEN <<Head(seq)>> \o ProviderCallsOf(Tail(seq))
         ELSE ProviderCallsOf(Tail(seq))

\* C14: the steps a request has run are the first steps of the fixed order
\* credentials, query parameters, target IP, zone, record listing, upsert;
\* every step but the last one run has returned; a step that raised ends the
\* request with an error response; the provider calls are issued in the order
\* of the steps, none by a step that did not run; the upsert runs only when
\* the listing held no match, and only a request whose upsert returned has
\* changed the record sets.
C14_StrictOrder ==
    \A p \in Procs :
        pc[p] # "idle" =>
            LET n == Len(steps[p])
                k == Len(ProviderCallsOf(calls[p]))
            IN  /\ n \in 1..6
                /\ \A i \in 1..n : steps[p][i].name = StepOrder[i]
                /\ \A i \in 1..(n - 1) : steps[p][i].raised = {}
                /\ steps[p][n].raised # {} =>
                       (pc[p] = "done" /\ The(resp[p]).status >= 400)
                /\ steps[p][n].raised = {} =>
                       /\ pc[p] = "zone" <=> n = 3
                       /\ pc[p] = "list" <=> n = 4
                       /\ pc[p] = "upsert" <=> n = 5 /\ resp[p] = {}
                       /\ pc[p] = "done" =>
                              (n \in {5, 6} /\ The(resp[p]).status = 200)
                /\ ProviderCallsOf(calls[p]) = SubSeq(CallOrder, 1, k)
                /\ k > 0 <=> n >= 4
                /\ k > 2 <=> n >= 5
                /\ k > 3 <=> n = 6
                /\ n = 6 =>
                       ~Published(before[p], The(Request(p).hostname), str(The(myip[p])))
                /\ records # before[p] => (n = 6 /\ steps[p][n].raised = {})

\* C14 witness: a request has run its six steps and been answered good.
C14_Witness ==
    \E p \in Procs :
        /\ pc[p] = "done"
        /\ Len(steps[p]) = 6
        /\ steps[p][6] = Returned("update_r53_record")
        /\ The(resp[p]).body[1] = "good"

\* The requests being handled, or answered and not yet sent, whose upsert
\* the provider received.
Upserted == {p \in Procs : "change_resource_record_sets" \in Issued(p)}

\* C15: of the authenticated requests for one hostname and one IP that are
\* handled at the same time, one at most issues an upsert.
C15_AtMostOneUpsert == Cardinality(Upserted) <= 1

\* C16: no step changes the set of hosted zones; the record sets change only
\* in the step that ends a request with good; when a request is answered
\* anything but good (401, 400, 422, 500, or 200 nochg) the record sets are
\* those the provider held when it arrived (before, set on arrival and kept
\* until the answer is sent); when it is answered good the
\* record sets that are not the A record set of its hostname in the zone found
\* under the candidate name are those the provider held when it arrived.
C16_Frame ==
    [][/\ hostedZones' = hostedZones
       /\ records' # records =>
              \E p \in Procs :
                  /\ pc[p] = "upsert" /\ pc'[p] = "done"
                  /\ The(resp'[p]).body[1] = "good"
       /\ \A p \in Procs :
              (pc[p] # "done" /\ pc'[p] = "done") =>
                  LET answer == The(resp'[p])
                  IN  IF answer.status = 200 /\ answer.body[1] = "good"
                      THEN LET h == The(Request(p).hostname)
                           IN  /\ zone'[p] = {ZoneIdOf(h)}
                               /\ {r \in records' : ~IsTarget(r, ZoneIdOf(h), h)}
                                     = {r \in before'[p] : ~IsTarget(r, ZoneIdOf(h), h)}
                      ELSE /\ answer.status \in {200, 400, 401, 422, 500}
                           /\ answer.status = 200 => answer.body[1] = "nochg"
                           /\ records' = before'[p]
      ]_vars

\* C16 witness: a request for a.b.example.com has been answered good while
\* its zone b.example.com holds a TXT record set of that name and the zone
\* example.com holds record sets too.
C16_Witness ==
    \E p \in Procs :
        /\ pc[p] = "done"
        /\ Request(p).hostname = {ABExampleCom}
        /\ The(resp[p]).body[1] = "good"
        /\ zone[p] = {ZoneIdBExampleCom}
        /\ \E r \in records : r.Zone = ZoneIdExampleCom
        /\ \E r \in records : r.Zone = ZoneIdBExampleCom /\ r.Type = "TXT"

=============================================================================
